---- MODULE Spec2Model ----
(***************************************************************************)
(* Model of pymanoid's numeric control core:                               *)
(*   - ik.py   VelocitySolver : task registry guarded by tasks_lock and    *)
(*                              the per-tick QP assembly                   *)
(*   - mpc.py  PreviewBuffer  : plan hand-off guarded by preview_lock      *)
(*   - mpc.py  PreviewControl : horizon matrices and the preview QP        *)
(* Floats are modelled by exact integer fixed point: positions and         *)
(* weights in whole units, gains in tenths (1. is 10), velocities in       *)
(* quarters of a unit per second, times in whole units.                    *)
(***************************************************************************)
EXTENDS Integers, Sequences, FiniteSets, TLC

VARIABLES
    tasks,        \* VelocitySolver.tasks : name -> Task object
    tasks_lock,   \* VelocitySolver.tasks_lock : "free" or the holding thread
    pc,           \* position of every thread inside the call it is running
    arg,          \* argument of the running add_task / remove_task call
    result,       \* outcome of the call a thread has just finished
    ncalls,       \* number of add_task / remove_task calls made so far
    cv,           \* locals of the running compute_velocity call
    preview,      \* PreviewBuffer.preview : the current plan, or NoPlan
    preview_index,\* PreviewBuffer.preview_index : the read cursor
    preview_lock, \* PreviewBuffer.preview_lock : "free" or the holding thread
    cur_control,  \* PreviewBuffer.cur_control : the control being held
    rem_time,     \* PreviewBuffer.rem_time : time left on the held control
    bpc,          \* position of the updater and of the tick thread
    local,        \* arguments and return value of the running buffer calls
    delivered,    \* what the callback received last: <<control, dt>>
    obs,          \* counts of the buffer calls completed so far
    pctl,         \* the PreviewControl object: its attributes
    run           \* locals and outcome of the running PreviewControl call

ikvars == <<tasks, tasks_lock, pc, arg, result, ncalls, cv>>

bufvars == <<preview, preview_index, preview_lock, cur_control, rem_time,
             bpc, local, delivered, obs>>

mpcvars == <<pctl, run>>

vars == <<tasks, tasks_lock, pc, arg, result, ncalls, cv,
          preview, preview_index, preview_lock, cur_control, rem_time,
          bpc, local, delivered, obs, pctl, run>>

----------------------------------------------------------------------------
(* Bounds of the model *)

\* add_task / remove_task calls made in one run; also numbers the Task objects
MaxCalls == 3

\* add_task / remove_task calls the planner makes beside the control thread
MaxPlannerCalls == 2

----------------------------------------------------------------------------
(* Values *)

\* Python None for an optional number: <<>> is None, <<v>> is the number v
Unset == <<>>

Some(v) == <<v>>

\* threads calling add_task / remove_task (the planner side)
Mutators == {"m1", "m2"}

\* the control thread, calling compute_velocity
Ctl == "ctl"

IKThreads == Mutators \cup {Ctl}

TaskNames == {"a", "b"}

\* the literal 1. of the gain test, in tenths
GainOne == 10

\* VelocitySolver(robot, default_gains={'com': 0.5}, default_weights={'com': 2})
default_gains == [com |-> 5]

default_weights == [com |-> 2]

\* robot limits over the active DOFs (positions in units, velocities in quarters)
q_max == <<2, 2>>

q_min == <<-2, -2>>

\* robot.nb_active_dofs
nb_active_dofs == Len(q_max)

Dofs == 1..nb_active_dofs

qd_max == <<2, 3>>

qd_min == <<-2, -3>>

\* joint configurations the robot may be in when a tick starts (q_min <= q <= q_max)
QSet == {<<0, 1>>, <<2, -2>>}

\* tick periods
DtSet == {1, 2}

\* task.jacobian()[:, active_dofs] and task.residual(dt) of the task named nm:
\* one-row Jacobian, one-dimensional residual
Jacobian(nm) == IF nm = "a" THEN <<1, 0>> ELSE <<1, 1>>

Residual(nm, dt) == IF nm = "a" THEN dt ELSE 2 * dt

\* Task objects a caller may create: (task_type, gain, weight)
TaskKinds ==
    { <<"com",  Unset,    Unset>>,      \* resolved from the defaults
      <<"link", Unset,    Unset>>,      \* no default weight for its type
      <<"link", Some(15), Some(1)>>,    \* gain 1.5
      <<"link", Some(10), Some(-1)>>,   \* gain 1.0, negative weight
      <<"link", Some(0),  Some(0)>> }   \* gain 0.0, weight 0.0

NewTask(id, nm, kind) ==
    [id |-> id, name |-> nm, task_type |-> kind[1], gain |-> kind[2], weight |-> kind[3]]

NoArg == [id |-> 0]

NoCv == [dt |-> 0]

----------------------------------------------------------------------------
(* VelocitySolver.__init__ *)

InitIK ==
    /\ tasks = [nm \in {} |-> NoArg]
    /\ tasks_lock = "free"
    /\ pc = [t \in IKThreads |-> "idle"]
    /\ arg = [t \in Mutators |-> NoArg]
    /\ result = [t \in IKThreads |-> "none"]
    /\ ncalls = 0
    /\ cv = NoCv

----------------------------------------------------------------------------
(* Registry helpers: dict membership, item assignment, del *)

Has(d, nm) == nm \in DOMAIN d

SetItem(d, nm, v) == [k \in DOMAIN d \cup {nm} |-> IF k = nm THEN v ELSE d[k]]

\* a del that clears the dict
DelItemClear(d, nm) == [k \in {} |-> d[k]]

DelItem(d, nm) == [k \in DOMAIN d \ {nm} |-> d[k]]

----------------------------------------------------------------------------
(* VelocitySolver.add_task *)

\* lines 92-95: gain and weight taken from the per-type defaults when unset
ResolvedGain(task) ==
    IF task.gain = Unset /\ task.task_type \in DOMAIN default_gains
    THEN Some(default_gains[task.task_type])
    ELSE task.gain

ResolvedWeight(task) ==
    IF task.weight = Unset /\ task.task_type \in DOMAIN default_weights
    THEN Some(default_weights[task.task_type])
    ELSE task.weight

Resolved(task) ==
    [task EXCEPT !.gain = ResolvedGain(task), !.weight = ResolvedWeight(task)]

\* lines 96-102: the exception raised on the resolved task, "ok" when none is
Validate(task) ==
    IF task.weight = Unset THEN "MissingWeightError"
    ELSE IF task.gain # Unset /\ task.gain[1] > GainOne THEN "InvalidGainError"
    ELSE IF task.weight[1] < 0 THEN "InvalidWeightError"
    ELSE "ok"

\* an add_task without the membership test
AlreadyPresentNever(task) == FALSE

\* lines 88-89: the membership test made before the lock is taken
AlreadyPresent(task) == Has(tasks, task.name)

\* the caller creates a Task and calls add_task; lines 88-89 run
AddTaskCheck(t, nm, kind) ==
    /\ pc[t] = "idle"
    /\ ncalls < MaxCalls
    /\ ncalls' = ncalls + 1
    /\ LET task == NewTask(ncalls + 1, nm, kind) IN
       /\ arg' = [arg EXCEPT ![t] = task]
       /\ IF AlreadyPresent(task)
          THEN /\ pc' = [pc EXCEPT ![t] = "done"]
               /\ result' = [result EXCEPT ![t] = "DuplicateTaskError"]
          ELSE /\ pc' = [pc EXCEPT ![t] = "add_lock"]
               /\ UNCHANGED result
    /\ UNCHANGED <<tasks, tasks_lock, cv>>
    /\ UNCHANGED <<bufvars, mpcvars>>

\* line 90: with self.tasks_lock
AddTaskLock(t) ==
    /\ pc[t] = "add_lock"
    /\ tasks_lock = "free"
    /\ tasks_lock' = t
    /\ pc' = [pc EXCEPT ![t] = "add_body"]
    /\ UNCHANGED <<tasks, arg, result, ncalls, cv>>
    /\ UNCHANGED <<bufvars, mpcvars>>

\* an add_task that leaves its locked section by a raise without releasing
\* the lock
AddTaskBodyKeepLock(t) ==
    /\ pc[t] = "add_body"
    /\ tasks_lock = t
    /\ LET task == Resolved(arg[t]) IN
       /\ tasks' = SetItem(tasks, task.name, task)
       /\ arg' = [arg EXCEPT ![t] = task]
       /\ result' = [result EXCEPT ![t] = Validate(task)]
       /\ tasks_lock' = IF Validate(task) = "ok" THEN "free" ELSE t
    /\ pc' = [pc EXCEPT ![t] = "done"]
    /\ UNCHANGED <<ncalls, cv>>
    /\ UNCHANGED <<bufvars, mpcvars>>

\* lines 91-102: the task is stored first, then resolved in place and
\* validated; the with block releases the lock on return and on raise
AddTaskBody(t) ==
    /\ pc[t] = "add_body"
    /\ tasks_lock = t
    /\ LET task == Resolved(arg[t]) IN
       /\ tasks' = SetItem(tasks, task.name, task)
       /\ arg' = [arg EXCEPT ![t] = task]
       /\ result' = [result EXCEPT ![t] = Validate(task)]
    /\ tasks_lock' = "free"
    /\ pc' = [pc EXCEPT ![t] = "done"]
    /\ UNCHANGED <<ncalls, cv>>
    /\ UNCHANGED <<bufvars, mpcvars>>

----------------------------------------------------------------------------
(* VelocitySolver.remove_task *)

\* the call, up to the lock
RemoveTaskCall(t, nm) ==
    /\ pc[t] = "idle"
    /\ ncalls < MaxCalls
    /\ ncalls' = ncalls + 1
    /\ arg' = [arg EXCEPT ![t] = [id |-> 0, name |-> nm]]
    /\ pc' = [pc EXCEPT ![t] = "rm_lock"]
    /\ UNCHANGED <<tasks, tasks_lock, result, cv>>
    /\ UNCHANGED <<bufvars, mpcvars>>

\* a remove_task that does not wait for the lock
RemoveTaskLockNoWait(t) ==
    /\ pc[t] = "rm_lock"
    /\ tasks_lock' = t
    /\ pc' = [pc EXCEPT ![t] = "rm_body"]
    /\ UNCHANGED <<tasks, arg, result, ncalls, cv>>
    /\ UNCHANGED <<bufvars, mpcvars>>

\* line 105: with self.tasks_lock
RemoveTaskLock(t) ==
    /\ pc[t] = "rm_lock"
    /\ tasks_lock = "free"
    /\ tasks_lock' = t
    /\ pc' = [pc EXCEPT ![t] = "rm_body"]
    /\ UNCHANGED <<tasks, arg, result, ncalls, cv>>
    /\ UNCHANGED <<bufvars, mpcvars>>

\* lines 106-109
RemoveTaskBody(t) ==
    /\ pc[t] = "rm_body"
    /\ tasks_lock = t
    /\ IF ~Has(tasks, arg[t].name)
       THEN /\ result' = [result EXCEPT ![t] = "warning"]
            /\ UNCHANGED tasks
       ELSE /\ tasks' = DelItem(tasks, arg[t].name)
            /\ result' = [result EXCEPT ![t] = "ok"]
    /\ tasks_lock' = "free"
    /\ pc' = [pc EXCEPT ![t] = "done"]
    /\ UNCHANGED <<arg, ncalls, cv>>
    /\ UNCHANGED <<bufvars, mpcvars>>

\* the caller takes the outcome of a finished add_task / remove_task call
Return(t) ==
    /\ pc[t] = "done"
    /\ pc' = [pc EXCEPT ![t] = "idle"]
    /\ arg' = [arg EXCEPT ![t] = NoArg]
    /\ result' = [result EXCEPT ![t] = "none"]
    /\ UNCHANGED <<tasks, tasks_lock, ncalls, cv>>
    /\ UNCHANGED <<bufvars, mpcvars>>

----------------------------------------------------------------------------
(* numpy helpers, on sequences (vectors) and sequences of rows (matrices) *)

zeros(k) == [i \in 1..k |-> 0]

zeros2(k, m) == [i \in 1..k |-> [j \in 1..m |-> 0]]

eye(k) == [i \in 1..k |-> [j \in 1..k |-> IF i = j THEN 1 ELSE 0]]

Neg(v) == [i \in 1..Len(v) |-> -v[i]]

NegM(M) == [i \in 1..Len(M) |-> Neg(M[i])]

Min2(x, y) == IF x <= y THEN x ELSE y

Max2(x, y) == IF x >= y THEN x ELSE y

minimum(u, v) == [i \in 1..Len(u) |-> Min2(u[i], v[i])]

maximum(u, v) == [i \in 1..Len(u) |-> Max2(u[i], v[i])]

\* vstack / hstack of two blocks
vstack(M, N) == M \o N

hstack(u, v) == u \o v

RECURSIVE SumTo(_, _)
SumTo(f, k) == IF k = 0 THEN 0 ELSE f[k] + SumTo(f, k - 1)

\* dot of two vectors, and of a matrix with a vector
Dot(u, v) == SumTo([i \in 1..Len(u) |-> u[i] * v[i]], Len(u))

MatVec(M, v) == [i \in 1..Len(M) |-> Dot(M[i], v)]

\* dot(J.T, J) for a one-row Jacobian J
JtJ(J) == [i \in 1..Len(J) |-> [j \in 1..Len(J) |-> J[i] * J[j]]]

AddM(M, N) == [i \in 1..Len(M) |-> [j \in 1..Len(M[i]) |-> M[i][j] + N[i][j]]]

AddV(u, v) == [i \in 1..Len(u) |-> u[i] + v[i]]

ScaleM(c, M) == [i \in 1..Len(M) |-> [j \in 1..Len(M[i]) |-> c * M[i][j]]]

ScaleV(c, v) == [i \in 1..Len(v) |-> c * v[i]]

----------------------------------------------------------------------------
(* optim.solve_qp: min 0.5 x'Px + q'x  s.t.  Gx <= h, over a grid of       *)
(* velocities (in quarters). The value is the set of minimisers the        *)
(* backend may return; it is empty when no point satisfies the             *)
(* constraints, and the backend then fails                                 *)

\* largest velocity magnitude of the grid, in quarters
MaxVel == 3

VelGrid == { <<x1, x2>> : x1 \in -MaxVel..MaxVel, x2 \in -MaxVel..MaxVel }

Feasible(G, h, x) == \A i \in 1..Len(G) : Dot(G[i], x) <= h[i]

\* 32 times the cost of the velocity x/4
Cost(P, qv, x) == Dot(x, MatVec(P, x)) + 8 * Dot(qv, x)

\* the least element of a non-empty set of integers
MinOf(S) == CHOOSE c \in S : \A d \in S : c <= d

solve_qp(P, qv, G, h) ==
    LET feas == { x \in VelGrid : Feasible(G, h, x) } IN
    IF feas = {} THEN {}
    ELSE LET best == MinOf({ Cost(P, qv, x) : x \in feas })
         IN { x \in feas : Cost(P, qv, x) = best }

----------------------------------------------------------------------------
(* VelocitySolver.compute_velocity *)

\* lines 151-152: doflim_gain * (q_lim - q) / dt with doflim_gain = 0.5,
\* in quarters: 4 * (1/2) * (q_lim - q) / dt
DofLim(q_lim, q, dt) == [i \in 1..Len(q) |-> (2 * (q_lim[i] - q[i])) \div dt]

\* bounds that leave the DOF limits out
QdMaxBoundNoDofLim(q, dt) == qd_max

\* lines 153-154
QdMaxBound(q, dt) == minimum(qd_max, DofLim(q_max, q, dt))

QdMinBound(q, dt) == maximum(qd_min, DofLim(q_min, q, dt))

\* lines 155-156
QpG == vstack(eye(nb_active_dofs), NegM(eye(nb_active_dofs)))

QpH(q, dt) == hstack(QdMaxBound(q, dt), Neg(QdMinBound(q, dt)))

\* lines 136-144: the robot state is read and the cost is zeroed
ComputeVelocityCall(dt, q) ==
    /\ pc[Ctl] = "idle"
    /\ cv' = [dt |-> dt, q |-> q, seen |-> {},
              qp_P |-> zeros2(nb_active_dofs, nb_active_dofs),
              qp_q |-> zeros(nb_active_dofs),
              qp_G |-> << >>, qp_h |-> << >>, qd |-> << >>]
    /\ pc' = [pc EXCEPT ![Ctl] = "cv_lock"]
    /\ UNCHANGED <<tasks, tasks_lock, arg, result, ncalls>>
    /\ UNCHANGED <<bufvars, mpcvars>>

\* line 145: with self.tasks_lock
ComputeVelocityLock ==
    /\ pc[Ctl] = "cv_lock"
    /\ tasks_lock = "free"
    /\ tasks_lock' = Ctl
    /\ pc' = [pc EXCEPT ![Ctl] = "cv_loop"]
    /\ UNCHANGED <<tasks, arg, result, ncalls, cv>>
    /\ UNCHANGED <<bufvars, mpcvars>>

\* lines 146-150: one iteration of the loop over self.tasks.itervalues();
\* multiplying by a weight that is None raises TypeError, which leaves the
\* with block (releasing the lock) and the call
ComputeVelocityTask(nm) ==
    /\ pc[Ctl] = "cv_loop"
    /\ tasks_lock = Ctl
    /\ nm \in DOMAIN tasks \ cv.seen
    /\ LET task == tasks[nm]
           J == Jacobian(nm)
           r == Residual(nm, cv.dt)
       IN IF task.weight = Unset
          THEN /\ tasks_lock' = "free"
               /\ pc' = [pc EXCEPT ![Ctl] = "done"]
               /\ result' = [result EXCEPT ![Ctl] = "TypeError"]
               /\ UNCHANGED cv
          ELSE /\ cv' = [cv EXCEPT
                    !.seen = @ \cup {nm},
                    !.qp_P = AddM(@, ScaleM(task.weight[1], JtJ(J))),
                    !.qp_q = AddV(@, ScaleV(task.weight[1] * (-r), J))]
               /\ UNCHANGED <<tasks_lock, pc, result>>
    /\ UNCHANGED <<tasks, arg, ncalls>>
    /\ UNCHANGED <<bufvars, mpcvars>>

\* a compute_velocity that keeps the lock when the loop is over
ComputeVelocityUnlockHeld ==
    /\ pc[Ctl] = "cv_loop"
    /\ tasks_lock = Ctl
    /\ DOMAIN tasks \ cv.seen = {}
    /\ cv' = [cv EXCEPT !.qp_G = QpG, !.qp_h = QpH(cv.q, cv.dt)]
    /\ pc' = [pc EXCEPT ![Ctl] = "cv_solve"]
    /\ UNCHANGED <<tasks, tasks_lock, arg, result, ncalls>>
    /\ UNCHANGED <<bufvars, mpcvars>>

\* the loop is over: the with block ends, and lines 151-156 build the bounds
ComputeVelocityUnlock ==
    /\ pc[Ctl] = "cv_loop"
    /\ tasks_lock = Ctl
    /\ DOMAIN tasks \ cv.seen = {}
    /\ tasks_lock' = "free"
    /\ cv' = [cv EXCEPT !.qp_G = QpG, !.qp_h = QpH(cv.q, cv.dt)]
    /\ pc' = [pc EXCEPT ![Ctl] = "cv_solve"]
    /\ UNCHANGED <<tasks, arg, result, ncalls>>
    /\ UNCHANGED <<bufvars, mpcvars>>

\* line 157: return solve_qp(qp_P, qp_q, qp_G, qp_h)
ComputeVelocitySolve ==
    /\ pc[Ctl] = "cv_solve"
    /\ LET sols == solve_qp(cv.qp_P, cv.qp_q, cv.qp_G, cv.qp_h) IN
       IF sols = {}
       THEN /\ result' = [result EXCEPT ![Ctl] = "InfeasibleError"]
            /\ UNCHANGED cv
       ELSE /\ \E x \in sols : cv' = [cv EXCEPT !.qd = x]
            /\ result' = [result EXCEPT ![Ctl] = "ok"]
    /\ pc' = [pc EXCEPT ![Ctl] = "done"]
    /\ UNCHANGED <<tasks, tasks_lock, arg, ncalls>>
    /\ UNCHANGED <<bufvars, mpcvars>>

\* the control loop takes the outcome of the finished compute_velocity call
ComputeVelocityReturn ==
    /\ pc[Ctl] = "done"
    /\ pc' = [pc EXCEPT ![Ctl] = "idle"]
    /\ result' = [result EXCEPT ![Ctl] = "none"]
    /\ cv' = NoCv
    /\ UNCHANGED <<tasks, tasks_lock, arg, ncalls>>
    /\ UNCHANGED <<bufvars, mpcvars>>

----------------------------------------------------------------------------
----------------------------------------------------------------------------
(* PreviewBuffer: plans *)

\* horizon of the plans a PreviewControl hands over
MaxSteps == 2

\* on_tick calls made in one run: enough to exhaust a plan held two ticks
\* per sample, and to tick twice more
MaxTicks == 2 * MaxSteps + 2

\* the literal 3 of get_next_control: entries taken per call
ControlDim == 3

\* a filled plan: the stacked controls U of length u_dim * nb_steps (entry i
\* of plan id is 10 * id + i, so that every entry tells its plan and place)
\* and the time each control is to be held
MkPlan(id, u_dim, nb_steps, timestep) ==
    [id |-> id, u_dim |-> u_dim, nb_steps |-> nb_steps, timestep |-> timestep,
     U |-> [i \in 1..(u_dim * nb_steps) |-> 10 * id + i]]

Plans == { MkPlan(1, 3, MaxSteps, 2), MkPlan(2, 3, 1, 4), MkPlan(3, 2, 3, 2),
           MkPlan(4, 3, 1, 3), MkPlan(5, 3, 1, 1) }

\* self.preview = None
NoPlan == [id |-> 0]

\* the updater thread (update_preview) and the tick thread (on_tick)
Updater == "upd"

Ticker == "tick"

NoLocal == [dt |-> 0, ctx |-> "none", ret |-> << >>, new |-> NoPlan]

\* value at which the count of get_next_control calls stops growing
GetsCap == MaxSteps + 2

\* what has been done to the buffer so far:
\*   ticks    on_tick calls completed
\*   gets     get_next_control calls completed since the last update_preview
\*   updates  update_preview calls completed (counted up to 2)
\*   plan     id of the plan the last update_preview installed
\*   direct   get_next_control has been called from outside on_tick
\*   dts      tick sizes on_tick has been called with
\*   fresh    the last update_preview completed on a buffer nothing had
\*            ticked or read yet
\*   heldT    held time dT of the pair on_tick adopted last
\*   held     ticks on which the callback has received that pair
NoObs == [ticks |-> 0, gets |-> 0, updates |-> 0, plan |-> 0, direct |-> FALSE,
          dts |-> {}, fresh |-> FALSE, heldT |-> 0, held |-> 0]

\* PreviewBuffer.__init__, lines 43-49
InitBuffer ==
    /\ preview = NoPlan
    /\ preview_index = 0
    /\ preview_lock = "free"
    /\ cur_control = << >>
    /\ rem_time = 0
    /\ bpc = [t \in {Updater, Ticker} |-> "idle"]
    /\ local = NoLocal
    /\ delivered = << >>
    /\ obs = NoObs

----------------------------------------------------------------------------
(* PreviewBuffer.update_preview *)

UpdatePreviewCall(plan) ==
    /\ bpc[Updater] = "idle"
    /\ local' = [local EXCEPT !.new = plan]
    /\ bpc' = [bpc EXCEPT ![Updater] = "upd_lock"]
    /\ UNCHANGED <<preview, preview_index, preview_lock, cur_control, rem_time,
                   delivered, obs>>
    /\ UNCHANGED <<ikvars, mpcvars>>

\* line 55: with self.preview_lock
UpdatePreviewLock ==
    /\ bpc[Updater] = "upd_lock"
    /\ preview_lock = "free"
    /\ preview_lock' = Updater
    /\ bpc' = [bpc EXCEPT ![Updater] = "upd_body"]
    /\ UNCHANGED <<preview, preview_index, cur_control, rem_time, local,
                   delivered, obs>>
    /\ UNCHANGED <<ikvars, mpcvars>>

\* lines 56-57, and the end of the with block
UpdatePreviewBody ==
    /\ bpc[Updater] = "upd_body"
    /\ preview_lock = Updater
    /\ preview_index' = 0
    /\ preview' = local.new
    /\ preview_lock' = "free"
    /\ local' = [local EXCEPT !.new = NoPlan]
    /\ bpc' = [bpc EXCEPT ![Updater] = "idle"]
    /\ obs' = [obs EXCEPT
            !.gets = 0,
            !.updates = Min2(@ + 1, 2),
            !.plan = local.new.id,
            !.fresh = (obs.ticks = 0 /\ ~obs.direct /\ bpc[Ticker] = "idle")]
    /\ UNCHANGED <<cur_control, rem_time, delivered>>
    /\ UNCHANGED <<ikvars, mpcvars>>

----------------------------------------------------------------------------
(* PreviewBuffer.get_next_control *)

\* U[j:k] of Python, for 0 <= j <= k: the entries at 0-based places j..k-1
\* that exist
Slice(U, j, k) ==
    LET lo == Min2(j, Len(U))
        hi == Min2(k, Len(U))
    IN [i \in 1..(hi - lo) |-> U[lo + i]]

\* a get_next_control that keeps the spent plan
GetNextControlKeepSpent(pv, idx) ==
    IF pv = NoPlan
    THEN [ret |-> <<zeros(ControlDim), 0>>, preview |-> pv, preview_index |-> idx]
    ELSE LET j == ControlDim * idx
             u == Slice(pv.U, j, j + ControlDim)
         IN IF Len(u) = 0
            THEN [ret |-> <<zeros(ControlDim), 0>>, preview |-> pv,
                  preview_index |-> idx]
            ELSE [ret |-> <<u, pv.timestep>>, preview |-> pv,
                  preview_index |-> idx + 1]

\* lines 64-73: the returned pair and the plan and cursor left behind
GetNextControl(pv, idx) ==
    IF pv = NoPlan
    THEN [ret |-> <<zeros(ControlDim), 0>>, preview |-> pv, preview_index |-> idx]
    ELSE LET j == ControlDim * idx
             u == Slice(pv.U, j, j + ControlDim)
         IN IF Len(u) = 0
            THEN [ret |-> <<zeros(ControlDim), 0>>, preview |-> NoPlan,
                  preview_index |-> idx]
            ELSE [ret |-> <<u, pv.timestep>>, preview |-> pv,
                  preview_index |-> idx + 1]

\* get_next_control called from outside on_tick
GetNextControlCall ==
    /\ bpc[Ticker] = "idle"
    /\ local' = [local EXCEPT !.ctx = "direct", !.ret = << >>]
    /\ bpc' = [bpc EXCEPT ![Ticker] = "get_lock"]
    /\ obs' = [obs EXCEPT !.direct = TRUE]
    /\ UNCHANGED <<preview, preview_index, preview_lock, cur_control, rem_time,
                   delivered>>
    /\ UNCHANGED <<ikvars, mpcvars>>

\* line 63: with self.preview_lock
GetNextControlLock ==
    /\ bpc[Ticker] = "get_lock"
    /\ preview_lock = "free"
    /\ preview_lock' = Ticker
    /\ bpc' = [bpc EXCEPT ![Ticker] = "get_body"]
    /\ UNCHANGED <<preview, preview_index, cur_control, rem_time, local,
                   delivered, obs>>
    /\ UNCHANGED <<ikvars, mpcvars>>

\* lines 64-73, and the end of the with block
GetNextControlBody ==
    /\ bpc[Ticker] = "get_body"
    /\ preview_lock = Ticker
    /\ LET r == GetNextControl(preview, preview_index) IN
       /\ preview' = r.preview
       /\ preview_index' = r.preview_index
       /\ local' = [local EXCEPT !.ret = r.ret]
    /\ preview_lock' = "free"
    /\ bpc' = [bpc EXCEPT ![Ticker] = IF local.ctx = "tick" THEN "adopt" ELSE "got"]
    /\ obs' = [obs EXCEPT !.gets = Min2(@ + 1, GetsCap)]
    /\ UNCHANGED <<cur_control, rem_time, delivered>>
    /\ UNCHANGED <<ikvars, mpcvars>>

\* the outside caller takes the pair
GetNextControlReturn ==
    /\ bpc[Ticker] = "got"
    /\ local' = [local EXCEPT !.ctx = "none", !.ret = << >>]
    /\ bpc' = [bpc EXCEPT ![Ticker] = "idle"]
    /\ UNCHANGED <<preview, preview_index, preview_lock, cur_control, rem_time,
                   delivered, obs>>
    /\ UNCHANGED <<ikvars, mpcvars>>

----------------------------------------------------------------------------
(* PreviewBuffer.on_tick *)

\* lines 79-80: the held control has run out, get_next_control is called
OnTickPull(dt) ==
    /\ bpc[Ticker] = "idle"
    /\ obs.ticks < MaxTicks
    /\ rem_time < dt
    /\ local' = [local EXCEPT !.dt = dt, !.ctx = "tick", !.ret = << >>]
    /\ bpc' = [bpc EXCEPT ![Ticker] = "get_lock"]
    /\ obs' = [obs EXCEPT !.dts = @ \cup {dt}]
    /\ UNCHANGED <<preview, preview_index, preview_lock, cur_control, rem_time,
                   delivered>>
    /\ UNCHANGED <<ikvars, mpcvars>>

\* an on_tick that adds the new held time to the time left over
OnTickAdoptCarry ==
    /\ bpc[Ticker] = "adopt"
    /\ cur_control' = local.ret[1]
    /\ delivered' = <<local.ret[1], local.dt>>
    /\ rem_time' = rem_time + local.ret[2] - local.dt
    /\ local' = [local EXCEPT !.dt = 0, !.ctx = "none", !.ret = << >>]
    /\ bpc' = [bpc EXCEPT ![Ticker] = "idle"]
    /\ obs' = [obs EXCEPT !.ticks = @ + 1, !.heldT = local.ret[2], !.held = 1]
    /\ UNCHANGED <<preview, preview_index, preview_lock>>
    /\ UNCHANGED <<ikvars, mpcvars>>

\* lines 81-84: the pair is adopted, the callback runs, the time is counted
OnTickAdopt ==
    /\ bpc[Ticker] = "adopt"
    /\ cur_control' = local.ret[1]
    /\ delivered' = <<local.ret[1], local.dt>>
    /\ rem_time' = local.ret[2] - local.dt
    /\ local' = [local EXCEPT !.dt = 0, !.ctx = "none", !.ret = << >>]
    /\ bpc' = [bpc EXCEPT ![Ticker] = "idle"]
    /\ obs' = [obs EXCEPT !.ticks = @ + 1, !.heldT = local.ret[2], !.held = 1]
    /\ UNCHANGED <<preview, preview_index, preview_lock>>
    /\ UNCHANGED <<ikvars, mpcvars>>

\* lines 79, 83-84: the held control is kept and delivered again
OnTickHold(dt) ==
    /\ bpc[Ticker] = "idle"
    /\ obs.ticks < MaxTicks
    /\ ~(rem_time < dt)
    /\ delivered' = <<cur_control, dt>>
    /\ rem_time' = rem_time - dt
    /\ obs' = [obs EXCEPT !.ticks = @ + 1, !.dts = @ \cup {dt}, !.held = @ + 1]
    /\ UNCHANGED <<preview, preview_index, preview_lock, cur_control, bpc, local>>
    /\ UNCHANGED <<ikvars, mpcvars>>

----------------------------------------------------------------------------
----------------------------------------------------------------------------
(* PreviewControl: values. Matrices are sequences of rows; states, controls *)
(* and weights are whole numbers                                           *)

\* longest horizon nb_steps of the integrator systems
MaxHorizon == 2

\* largest control magnitude: the box the control constraints G, h describe
MaxU == 4

\* the literal 3 of compute_dynamics: rows of phi and psi taken as position
PosRows == 3

Col(M, j) == [i \in 1..Len(M) |-> M[i][j]]

\* M.T, for a matrix with at least one row
Transpose(M) == [j \in 1..Len(M[1]) |-> Col(M, j)]

\* dot of two matrices
MatMul(M, N) ==
    [i \in 1..Len(M) |-> [j \in 1..Len(N[1]) |-> Dot(M[i], Col(N, j))]]

\* M[:k], the first k rows that exist
Rows(M, k) == [i \in 1..Min2(k, Len(M)) |-> M[i]]

\* shape of a matrix
Shape(M) == <<Len(M), Len(M[1])>>

\* control constraints |u| <= MaxU on every entry of the stacked control
BoxG(m) == vstack(eye(m), NegM(eye(m)))

BoxH(m) == [i \in 1..(2 * m) |-> MaxU]

\* arguments of PreviewControl(A, B, G, h, x_init, x_goal, nb_steps, E, f,
\* wx, wu)
\* the single-step system x1 = x0 + u0 from x0 = 0
SingleStep(wx, wu, g) ==
    [A |-> eye(2), B |-> eye(2), G |-> BoxG(2), h |-> BoxH(2),
     x_init |-> zeros(2), x_goal |-> g, nb_steps |-> 1,
     E |-> Unset, f |-> Unset, wx |-> wx, wu |-> wu]

\* position and velocity driven by one control, over a horizon of N steps,
\* with or without a state constraint E p <= f
Integrator(N, E, f) ==
    [A |-> << <<1, 1>>, <<0, 1>> >>, B |-> << <<1>>, <<2>> >>,
     G |-> BoxG(N), h |-> BoxH(N),
     x_init |-> <<1, -1>>, x_goal |-> <<2, 0>>, nb_steps |-> N,
     E |-> E, f |-> f, wx |-> 2, wu |-> 1]

\* the same dynamics driven by two controls, over two steps
TwoInput ==
    [A |-> << <<1, 1>>, <<0, 1>> >>, B |-> << <<1, 0>>, <<1, 2>> >>,
     G |-> BoxG(4), h |-> BoxH(4),
     x_init |-> <<0, 1>>, x_goal |-> <<1, 1>>, nb_steps |-> 2,
     E |-> Unset, f |-> Unset, wx |-> 2, wu |-> 1]

SingleStepSystems ==
    { SingleStep(w[1], w[2], g) :
        w \in {<<1, 1>>, <<3, 1>>, <<1, 3>>}, g \in {<<4, -4>>, <<0, 4>>} }

Systems ==
    SingleStepSystems
    \cup { Integrator(N, Unset, Unset) : N \in 1..MaxHorizon }
    \cup { Integrator(N, Some(<< <<1, 0>> >>), Some(<<5>>)) : N \in 1..MaxHorizon }
    \cup { TwoInput }

\* no PreviewControl has been constructed yet
NoControl == [nb_steps |-> 0]

\* a value of time(): only its presence is modelled
Stamp == Some("t")

NoRun == [pc |-> "idle", k |-> 0, phi |-> << >>, psi |-> << >>,
          G_list |-> << >>, h_list |-> << >>,
          P |-> << >>, q |-> << >>, G |-> << >>, h |-> << >>,
          result |-> "none", solved |-> FALSE, built |-> FALSE]

InitPreview ==
    /\ pctl = NoControl
    /\ run = NoRun

----------------------------------------------------------------------------
(* optim.solve_qp for the preview QP: min 0.5 U'PU + q'U  s.t.  GU <= h,   *)
(* over the whole-number controls of the box                               *)

ControlGrid(m) == [1..m -> -MaxU..MaxU]

\* twice the cost of the control x
PreviewCost(P, qv, x) == Dot(x, MatVec(P, x)) + 2 * Dot(qv, x)

preview_solve_qp(P, qv, G, h) ==
    LET feas == { x \in ControlGrid(Len(qv)) : Feasible(G, h, x) } IN
    IF feas = {} THEN {}
    ELSE LET best == MinOf({ PreviewCost(P, qv, x) : x \in feas })
         IN { x \in feas : PreviewCost(P, qv, x) = best }

----------------------------------------------------------------------------
(* PreviewControl.__init__ *)

\* lines 135-154
PreviewControlInit(sys) ==
    /\ pctl = NoControl
    /\ LET u_dim == Len(sys.B[1])
           x_dim == Len(sys.A[1])
       IN pctl' = [A |-> sys.A, B |-> sys.B, E |-> sys.E, G |-> sys.G,
                   U_dim |-> u_dim * sys.nb_steps,
                   X_dim |-> x_dim * sys.nb_steps,
                   f |-> sys.f, h |-> sys.h, nb_steps |-> sys.nb_steps,
                   phi_last |-> Unset, psi_last |-> Unset,
                   t_build_start |-> Unset,
                   u_dim |-> u_dim, x_dim |-> x_dim,
                   x_goal |-> sys.x_goal, x_init |-> sys.x_init,
                   wu |-> sys.wu, wx |-> sys.wx,
                   G_state |-> Unset, h_state |-> Unset,
                   U |-> Unset, solve_time |-> Unset,
                   solve_and_build_time |-> Unset]
    /\ UNCHANGED run
    /\ UNCHANGED <<ikvars, bufvars>>

----------------------------------------------------------------------------
(* PreviewControl.compute_dynamics *)

\* lines 168-171
ComputeDynamicsStart ==
    /\ pctl # NoControl
    /\ run.pc = "idle"
    /\ pctl' = [pctl EXCEPT !.t_build_start = Stamp]
    /\ run' = [run EXCEPT !.pc = "dyn_loop", !.k = 0,
                          !.phi = eye(pctl.x_dim),
                          !.psi = zeros2(pctl.x_dim, pctl.U_dim),
                          !.G_list = << >>, !.h_list = << >>]
    /\ UNCHANGED <<ikvars, bufvars>>

\* line 182: psi[:, u_dim * k:u_dim * (k + 1)] = B
SetBlock(psi, k, B, u_dim) ==
    [i \in 1..Len(psi) |->
        [j \in 1..Len(psi[i]) |->
            IF u_dim * k < j /\ j <= u_dim * (k + 1)
            THEN B[i][j - u_dim * k]
            ELSE psi[i][j]]]

\* lines 181-182 with B written into the block before psi is propagated
NextPsiEarly(c, psi, k) == MatMul(c.A, SetBlock(psi, k, c.B, c.u_dim))

\* lines 181-182
NextPsi(c, psi, k) == SetBlock(MatMul(c.A, psi), k, c.B, c.u_dim)

\* lines 172-182: one iteration of the loop over k
ComputeDynamicsStep ==
    /\ run.pc = "dyn_loop"
    /\ run.k < pctl.nb_steps
    /\ run' = [run EXCEPT
            !.G_list = IF pctl.E # Unset
                       THEN Append(@, MatMul(pctl.E[1], Rows(run.psi, PosRows)))
                       ELSE @,
            !.h_list = IF pctl.E # Unset
                       THEN Append(@, AddV(pctl.f[1],
                               Neg(MatVec(MatMul(pctl.E[1], Rows(run.phi, PosRows)),
                                          pctl.x_init))))
                       ELSE @,
            !.phi = MatMul(pctl.A, run.phi),
            !.psi = NextPsi(pctl, run.psi, run.k),
            !.k = @ + 1]
    /\ UNCHANGED pctl
    /\ UNCHANGED <<ikvars, bufvars>>

\* a compute_dynamics that returns without storing its matrices
ComputeDynamicsEndNoStore ==
    /\ run.pc = "dyn_loop"
    /\ run.k = pctl.nb_steps
    /\ run' = [run EXCEPT !.pc = "idle", !.built = TRUE]
    /\ UNCHANGED pctl
    /\ UNCHANGED <<ikvars, bufvars>>

\* lines 183-186: the loop is over, the results are stored
ComputeDynamicsEnd ==
    /\ run.pc = "dyn_loop"
    /\ run.k = pctl.nb_steps
    /\ pctl' = [pctl EXCEPT !.G_state = Some(run.G_list),
                            !.h_state = Some(run.h_list),
                            !.phi_last = Some(run.phi),
                            !.psi_last = Some(run.psi)]
    /\ run' = [run EXCEPT !.pc = "idle", !.built = TRUE]
    /\ UNCHANGED <<ikvars, bufvars>>

----------------------------------------------------------------------------
(* PreviewControl.compute_control *)

\* lines 195, 200, 202, 207: P = wx * Px + wu * Pu
PreviewQpP(c) ==
    LET A == c.psi_last[1]
        Px == MatMul(Transpose(A), A)
        Pu == eye(c.U_dim)
    IN AddM(ScaleM(c.wx, Px), ScaleM(c.wu, Pu))

\* a linear cost that leaves the weight wx out
PreviewQpQUnweighted(c) ==
    LET A == c.psi_last[1]
        b == AddV(c.x_goal, Neg(MatVec(c.phi_last[1], c.x_init)))
        qx == Neg(MatVec(Transpose(A), b))
        qu == zeros(c.U_dim)
    IN AddV(qx, ScaleV(c.wu, qu))

\* lines 196, 200-201, 203, 208: q = wx * qx + wu * qu
PreviewQpQ(c) ==
    LET A == c.psi_last[1]
        b == AddV(c.x_goal, Neg(MatVec(c.phi_last[1], c.x_init)))
        qx == Neg(MatVec(Transpose(A), b))
        qu == zeros(c.U_dim)
    IN AddV(ScaleV(c.wx, qx), ScaleV(c.wu, qu))

\* vstack / hstack of a list of blocks
RECURSIVE Stack(_)
Stack(blocks) ==
    IF blocks = << >> THEN << >> ELSE Head(blocks) \o Stack(Tail(blocks))

\* lines 192-212: the assertion, the cost and the constraints
ComputeControlBuild ==
    /\ pctl # NoControl
    /\ run.pc = "idle"
    /\ IF pctl.psi_last = Unset
       THEN run' = [run EXCEPT !.result = "NotBuiltError"]
       ELSE run' = [run EXCEPT
               !.pc = "ctl_solve",
               !.result = "none",
               !.P = PreviewQpP(pctl),
               !.q = PreviewQpQ(pctl),
               !.G = IF pctl.E = Unset THEN pctl.G
                     ELSE Stack(<<pctl.G>> \o pctl.G_state[1]),
               !.h = IF pctl.E = Unset THEN pctl.h
                     ELSE Stack(<<pctl.h>> \o pctl.h_state[1])]
    /\ UNCHANGED pctl
    /\ UNCHANGED <<ikvars, bufvars>>

\* lines 213-218: the second assertion, the solve, and what is stored
ComputeControlSolve ==
    /\ run.pc = "ctl_solve"
    /\ IF pctl.E # Unset
       THEN /\ run' = [run EXCEPT !.pc = "idle", !.result = "AssertionError"]
            /\ UNCHANGED pctl
       ELSE LET sols == preview_solve_qp(run.P, run.q, run.G, run.h) IN
            IF sols = {}
            THEN /\ run' = [run EXCEPT !.pc = "idle", !.solved = TRUE,
                                       !.result = "InfeasibleError"]
                 /\ UNCHANGED pctl
            ELSE /\ \E x \in sols :
                        pctl' = [pctl EXCEPT !.U = Some(x),
                                             !.solve_time = Stamp,
                                             !.solve_and_build_time = Stamp]
                 /\ run' = [run EXCEPT !.pc = "idle", !.solved = TRUE,
                                       !.result = "ok"]
    /\ UNCHANGED <<ikvars, bufvars>>

----------------------------------------------------------------------------
(* Specifications *)

Init == InitIK /\ InitBuffer /\ InitPreview

\* one PreviewControl, built and solved by the planner
NextPreview ==
    \/ \E sys \in Systems : PreviewControlInit(sys)
    \/ ComputeDynamicsStart
    \/ ComputeDynamicsStep
    \/ ComputeDynamicsEnd
    \/ ComputeControlBuild
    \/ ComputeControlSolve

SpecPreview == Init /\ [][NextPreview]_vars

NextBuffer ==
    \/ \E plan \in Plans : UpdatePreviewCall(plan)
    \/ UpdatePreviewLock
    \/ UpdatePreviewBody
    \/ GetNextControlCall
    \/ GetNextControlLock
    \/ GetNextControlBody
    \/ GetNextControlReturn
    \/ \E dt \in DtSet : OnTickPull(dt)
    \/ OnTickAdopt
    \/ \E dt \in DtSet : OnTickHold(dt)

SpecBuffer == Init /\ [][NextBuffer]_vars

\* the registry under two planner threads
NextRegistry ==
    \/ \E t \in Mutators, nm \in TaskNames, kind \in TaskKinds : AddTaskCheck(t, nm, kind)
    \/ \E t \in Mutators : AddTaskLock(t)
    \/ \E t \in Mutators : AddTaskBody(t)
    \/ \E t \in Mutators, nm \in TaskNames : RemoveTaskCall(t, nm)
    \/ \E t \in Mutators : RemoveTaskLock(t)
    \/ \E t \in Mutators : RemoveTaskBody(t)
    \/ \E t \in Mutators : Return(t)

SpecRegistry == Init /\ [][NextRegistry]_vars

\* the planner thread that runs beside the control thread
Planner == "m1"

\* the control thread ticking beside one planner thread
NextSolver ==
    \/ \E nm \in TaskNames, kind \in TaskKinds :
          ncalls < MaxPlannerCalls /\ AddTaskCheck(Planner, nm, kind)
    \/ AddTaskLock(Planner)
    \/ AddTaskBody(Planner)
    \/ \E nm \in TaskNames : ncalls < MaxPlannerCalls /\ RemoveTaskCall(Planner, nm)
    \/ RemoveTaskLock(Planner)
    \/ RemoveTaskBody(Planner)
    \/ Return(Planner)
    \/ \E dt \in DtSet, q \in QSet : ComputeVelocityCall(dt, q)
    \/ ComputeVelocityLock
    \/ \E nm \in TaskNames : ComputeVelocityTask(nm)
    \/ ComputeVelocityUnlock
    \/ ComputeVelocitySolve
    \/ ComputeVelocityReturn

SpecSolver == Init /\ [][NextSolver]_vars

\* the operations that take a lock, each lock under two threads: the planner
\* and the control thread on tasks_lock, the updater and a reader on
\* preview_lock. The solver and the buffer share no state and no operation
\* takes both locks, so a run works on one of the two objects and leaves the
\* other as constructed
LockTaskNames == {"a"}

LockTaskKinds == { <<"com", Unset, Unset>>, <<"link", Unset, Unset>> }

LockPlans == { MkPlan(2, 3, 1, 4) }

NextLocks ==
    \/ \E nm \in LockTaskNames, kind \in LockTaskKinds :
          InitBuffer /\ ncalls < MaxPlannerCalls /\ AddTaskCheck(Planner, nm, kind)
    \/ InitBuffer /\ AddTaskLock(Planner)
    \/ InitBuffer /\ AddTaskBody(Planner)
    \/ \E nm \in LockTaskNames :
          InitBuffer /\ ncalls < MaxPlannerCalls /\ RemoveTaskCall(Planner, nm)
    \/ InitBuffer /\ RemoveTaskLock(Planner)
    \/ InitBuffer /\ RemoveTaskBody(Planner)
    \/ InitBuffer /\ Return(Planner)
    \/ \E q \in QSet : InitBuffer /\ ComputeVelocityCall(1, q)
    \/ InitBuffer /\ ComputeVelocityLock
    \/ \E nm \in LockTaskNames : InitBuffer /\ ComputeVelocityTask(nm)
    \/ InitBuffer /\ ComputeVelocityUnlock
    \/ InitBuffer /\ ComputeVelocitySolve
    \/ InitBuffer /\ ComputeVelocityReturn
    \/ \E plan \in LockPlans : InitIK /\ UpdatePreviewCall(plan)
    \/ InitIK /\ UpdatePreviewLock
    \/ InitIK /\ UpdatePreviewBody
    \/ InitIK /\ GetNextControlCall
    \/ InitIK /\ GetNextControlLock
    \/ InitIK /\ GetNextControlBody
    \/ InitIK /\ GetNextControlReturn

\* the steps a thread takes between its call and its return
PlannerRun ==
    \/ AddTaskLock(Planner)
    \/ AddTaskBody(Planner)
    \/ RemoveTaskLock(Planner)
    \/ RemoveTaskBody(Planner)

\* line 157 seen from outside: the solve ends, with a velocity or a failure.
\* Every ComputeVelocitySolve step is such a step, and one is possible in
\* every state where the control thread is in the solve
SolveEnds ==
    /\ pc[Ctl] = "cv_solve"
    /\ pc' = [pc EXCEPT ![Ctl] = "done"]
    /\ result' \in { [result EXCEPT ![Ctl] = r] : r \in {"ok", "InfeasibleError"} }
    /\ cv' \in {cv} \cup { [cv EXCEPT !.qd = x] : x \in VelGrid }
    /\ UNCHANGED <<tasks, tasks_lock, arg, ncalls>>
    /\ UNCHANGED <<bufvars, mpcvars>>

ControlRun ==
    \/ ComputeVelocityLock
    \/ \E nm \in LockTaskNames : ComputeVelocityTask(nm)
    \/ ComputeVelocityUnlock
    \/ SolveEnds

UpdaterRun == UpdatePreviewLock \/ UpdatePreviewBody

ReaderRun == GetNextControlLock \/ GetNextControlBody

\* scheduling: a thread inside a call keeps running, and a thread waiting for
\* a lock that is released again and again gets it in the end
FairLocks ==
    /\ SF_vars(PlannerRun)
    /\ SF_vars(ControlRun)
    /\ SF_vars(UpdaterRun)
    /\ SF_vars(ReaderRun)

SpecLocks == Init /\ [][NextLocks]_vars /\ FairLocks

----------------------------------------------------------------------------
(* Claims about the task registry (SpecRegistry) *)

IsAdd(t) == arg[t].id > 0

\* C1: every task in the registry has a resolved weight that is >= 0 and,
\* if its gain is set, a gain in (0, 1], whatever add_task and remove_task
\* calls were made, the failing add_task calls included
C1_RegistryTasksValid ==
    \A nm \in DOMAIN tasks :
        /\ tasks[nm].weight # Unset
        /\ tasks[nm].weight[1] >= 0
        /\ tasks[nm].gain # Unset => (0 < tasks[nm].gain[1] /\ tasks[nm].gain[1] <= GainOne)

\* C2: an add_task call made while task.name is in the registry fails with
\* DuplicateTaskError, and the registry (names and stored objects) is the
\* same after the call as before
C2_DuplicateRejected ==
    [][\A t \in Mutators :
         (pc[t] = "idle" /\ pc'[t] # "idle" /\ arg'[t].id > 0 /\ Has(tasks, arg'[t].name))
         => (tasks' = tasks /\ pc'[t] = "done" /\ result'[t] = "DuplicateTaskError")]_vars

C2_Witness ==
    \E t \in Mutators :
        /\ pc[t] = "done" /\ IsAdd(t) /\ result[t] = "DuplicateTaskError"
        /\ Has(tasks, arg[t].name) /\ tasks[arg[t].name].id # arg[t].id

\* C3: a name is registered exactly once under every interleaving: the
\* object stored under a name is never replaced by another add_task (no
\* silent overwrite by a second, concurrent call for the same name)
C3_NoSilentOverwrite ==
    [][\A nm \in DOMAIN tasks \cap DOMAIN tasks' : tasks'[nm].id = tasks[nm].id]_vars

\* C5: remove_task of an absent name leaves the registry as it is, warns
\* and raises nothing; remove_task of a present name removes that entry
\* and leaves every other entry as it is
C5_RemoveFrame ==
    [][\A t \in Mutators :
         (pc[t] = "rm_body" /\ pc'[t] = "done")
         => IF Has(tasks, arg[t].name)
            THEN /\ DOMAIN tasks' = DOMAIN tasks \ {arg[t].name}
                 /\ \A k \in DOMAIN tasks' : tasks'[k] = tasks[k]
                 /\ result'[t] = "ok"
            ELSE /\ tasks' = tasks
                 /\ result'[t] = "warning"]_vars

\* a remove_task that found its name has returned and another entry is
\* still registered
C5_Witness ==
    \E t \in Mutators :
        /\ pc[t] = "done" /\ ~IsAdd(t) /\ result[t] = "ok"
        /\ DOMAIN tasks # {}

----------------------------------------------------------------------------
(* Claims about compute_velocity (SpecSolver) *)

\* C4: no task is added to or removed from the registry between the first
\* and the last task read of one assembly, and the tasks accumulated into
\* the QP cost are the registry contents when the assembly ends
C4_AssemblySnapshot ==
    [][/\ pc[Ctl] = "cv_loop" => tasks' = tasks
       /\ (pc[Ctl] = "cv_loop" /\ pc'[Ctl] = "cv_solve") => cv.seen = DOMAIN tasks]_vars

\* an assembly over two registered tasks is between its first and its last
\* task read
C4_Witness ==
    /\ pc[Ctl] = "cv_loop" /\ tasks_lock = Ctl
    /\ cv.seen # {} /\ cv.seen # DOMAIN tasks

\* C6: the assembled constraint is G = [I; -I], h = [qd_max'; -qd_min'] with
\* qd_max' = min(qd_max, doflim_gain*(q_max - q)/dt) and
\* qd_min' = max(qd_min, doflim_gain*(q_min - q)/dt), and the velocity
\* returned lies componentwise within [qd_min', qd_max']
C6_VelocityWithinBounds ==
    LET hi(i) == Min2(qd_max[i], (2 * (q_max[i] - cv.q[i])) \div cv.dt)
        lo(i) == Max2(qd_min[i], (2 * (q_min[i] - cv.q[i])) \div cv.dt)
    IN /\ pc[Ctl] = "cv_solve" =>
            /\ cv.qp_G = << <<1, 0>>, <<0, 1>>, <<-1, 0>>, <<0, -1>> >>
            /\ cv.qp_h = << hi(1), hi(2), -lo(1), -lo(2) >>
       /\ (pc[Ctl] = "done" /\ result[Ctl] = "ok") =>
            \A i \in Dofs : lo(i) <= cv.qd[i] /\ cv.qd[i] <= hi(i)

\* a velocity returned for a cost with a positive weight in it, resting on
\* the DOF-limit bound of the first joint and the velocity bound of the second
C6_Witness ==
    /\ pc[Ctl] = "done" /\ result[Ctl] = "ok"
    /\ cv.qp_P[1][1] > 0
    /\ cv.qd[1] = (2 * (q_max[1] - cv.q[1])) \div cv.dt /\ cv.qd[1] < qd_max[1]
    /\ cv.qd[2] = qd_max[2]

----------------------------------------------------------------------------
(* Claims about the PreviewBuffer (SpecBuffer) *)

PlanOf(id) == CHOOSE p \in Plans : p.id = id

\* the k-th control block of a plan, k = 0 .. nb_steps-1:
\* U[u_dim*k : u_dim*(k+1)]
Block(p, k) == [i \in 1..p.u_dim |-> p.U[p.u_dim * k + i]]

IsZero(u) == Len(u) > 0 /\ \A i \in 1..Len(u) : u[i] = 0

\* a step that runs the locked section of get_next_control
GetStep == bpc[Ticker] = "get_body" /\ bpc'[Ticker] # "get_body"

\* C7: the first get_next_control after a completed update_preview returns
\* the first control block and the timestep of the new plan, and every pair
\* returned is a control block of the plan then current, at its own cursor
C7_NewPlanServedFirst ==
    [][GetStep =>
        /\ (preview # NoPlan /\ obs.gets = 0)
             => local'.ret = <<Block(preview, 0), preview.timestep>>
        /\ local'.ret[2] # 0
             => /\ preview # NoPlan
                /\ preview_index < preview.nb_steps
                /\ local'.ret = <<Block(preview, preview_index), preview.timestep>>]_vars

\* C7 for plans of three-dimensional controls: what the lock gives
C7_NewPlanServedFirst3D ==
    [][(GetStep /\ preview # NoPlan => preview.u_dim = ControlDim) =>
       (GetStep =>
        /\ (preview # NoPlan /\ obs.gets = 0)
             => local'.ret = <<Block(preview, 0), preview.timestep>>
        /\ local'.ret[2] # 0
             => /\ preview # NoPlan
                /\ preview_index < preview.nb_steps
                /\ local'.ret = <<Block(preview, preview_index), preview.timestep>>)]_vars

\* the buffer was fresh when its one plan was installed, and has since been
\* ticked only, with ticks of half the plan's timestep
HalfStepTicking ==
    /\ obs.updates = 1 /\ obs.fresh /\ ~obs.direct
    /\ bpc[Ticker] = "idle" /\ obs.ticks > 0
    /\ \A dt \in obs.dts : 2 * dt = PlanOf(obs.plan).timestep

\* C8: tick n = 1 .. 2N delivers sample (n-1) div 2 of the plan, so each
\* sample is delivered on two consecutive ticks, in plan order; every later
\* tick delivers a zero control adopted with zero held time
TwoTicksPerSample(p) ==
    IF obs.ticks <= 2 * p.nb_steps
    THEN delivered[1] = Block(p, (obs.ticks - 1) \div 2)
    ELSE IsZero(delivered[1]) /\ rem_time = 0 - delivered[2]

C8_TwoTicksPerSample ==
    HalfStepTicking => TwoTicksPerSample(PlanOf(obs.plan))

\* C8 for plans of three-dimensional controls
C8_TwoTicksPerSample3D ==
    (HalfStepTicking /\ PlanOf(obs.plan).u_dim = ControlDim)
        => TwoTicksPerSample(PlanOf(obs.plan))

\* C9: with no update_preview in between, call k = 0 .. nb_steps-1 of
\* get_next_control returns control block k, U[u_dim*k : u_dim*(k+1)], with
\* the plan's timestep, and moves the cursor from k to k+1
C9_BlocksInOrder ==
    [][(GetStep /\ obs.updates > 0 /\ obs.gets < PlanOf(obs.plan).nb_steps) =>
        /\ preview = PlanOf(obs.plan)
        /\ preview_index = obs.gets
        /\ local'.ret = <<Block(preview, obs.gets), preview.timestep>>
        /\ preview_index' = preview_index + 1]_vars

\* C10: get_next_control always returns a pair; with no plan it is the zero
\* pair and nothing changes; with the cursor beyond the end of U it is the
\* zero pair and the plan is dropped; and only update_preview ends the
\* no-plan state
C10_ZeroWhenNoPlanOrExhausted ==
    [][/\ GetStep =>
            /\ Len(local'.ret) = 2
            /\ preview = NoPlan =>
                 /\ IsZero(local'.ret[1]) /\ local'.ret[2] = 0
                 /\ UNCHANGED <<preview, preview_index, cur_control, rem_time>>
            /\ (preview # NoPlan /\ ControlDim * preview_index >= Len(preview.U)) =>
                 /\ IsZero(local'.ret[1]) /\ local'.ret[2] = 0
                 /\ preview' = NoPlan
       /\ (preview = NoPlan /\ preview' # NoPlan) => bpc[Updater] = "upd_body"]_vars

\* a plan has just been found exhausted and dropped
C10_Witness ==
    /\ bpc[Ticker] = "got"
    /\ obs.updates > 0 /\ obs.gets = PlanOf(obs.plan).nb_steps + 1
    /\ preview = NoPlan
    /\ IsZero(local.ret[1]) /\ local.ret[2] = 0

----------------------------------------------------------------------------
(* Claims about the locking of compute_velocity (SpecSolver) *)

\* C14: compute_velocity holds tasks_lock only while it reads the registry:
\* the control thread never holds the lock while it is inside the QP solve,
\* and an add_task or remove_task that reaches its lock while a solve is in
\* progress can take the lock at once
C14_SolveUnlocked ==
    /\ tasks_lock = Ctl => pc[Ctl] = "cv_loop"
    /\ pc[Ctl] = "cv_solve" => tasks_lock # Ctl
    /\ (pc[Ctl] = "cv_solve" /\ tasks_lock = "free" /\ pc[Planner] = "add_lock")
          => ENABLED AddTaskLock(Planner)
    /\ (pc[Ctl] = "cv_solve" /\ tasks_lock = "free" /\ pc[Planner] = "rm_lock")
          => ENABLED RemoveTaskLock(Planner)

\* the planner has taken the lock while the control thread is in the solve of
\* a QP assembled from a registered task
C14_Witness ==
    /\ pc[Ctl] = "cv_solve" /\ cv.seen # {}
    /\ tasks_lock = Planner

----------------------------------------------------------------------------
(* Claims about the hold time of on_tick (SpecBuffer) *)

\* on_tick has only been called with the tick size dt, this call included
FixedTick(dt) == obs.dts' = {dt}

\* ticks a pair with held time T is to be delivered on: max(1, floor(T/dt))
HoldTicks(T, dt) == Max2(1, T \div dt)

\* C15: with a fixed tick size dt, a plan sample adopted with held time
\* T > 0 is delivered on exactly max(1, floor(T/dt)) consecutive ticks
\* before on_tick pulls the next pair (the time left over then is dropped),
\* and rem_time >= -dt after every on_tick
C15_HoldTicks ==
    [][\A dt \in DtSet :
         /\ (FixedTick(dt) /\ obs.heldT > 0
                /\ bpc[Ticker] = "idle" /\ bpc'[Ticker] = "get_lock"
                /\ local'.ctx = "tick")
             => obs.held = HoldTicks(obs.heldT, dt)
         /\ (FixedTick(dt) /\ obs.heldT > 0 /\ obs'.ticks = obs.ticks + 1
                /\ bpc[Ticker] = "idle")
             => (obs.held < HoldTicks(obs.heldT, dt) /\ delivered'[1] = cur_control)
         /\ (FixedTick(dt) /\ obs'.ticks = obs.ticks + 1)
             => rem_time' >= 0 - dt]_vars

\* with tick size 2 only, a sample of held time 3 has been delivered on one
\* tick, one unit of its time is left, and on_tick pulls the next pair
C15_Witness ==
    /\ obs.dts = {2} /\ obs.heldT = 3 /\ obs.held = 1 /\ rem_time = 1
    /\ bpc[Ticker] = "get_lock" /\ local.ctx = "tick"

----------------------------------------------------------------------------
(* Claims about PreviewControl (SpecPreview) *)

\* a step of compute_control taken from outside any call
ComputeControlStep ==
    /\ pctl # NoControl /\ pctl' # NoControl
    /\ run.pc = "idle" /\ run'.pc \in {"idle", "ctl_solve"}
    /\ run' # run

\* C11: while compute_dynamics has never been called, compute_control fails
\* with NotBuiltError, does not call the QP backend and stores none of U,
\* solve_time, solve_and_build_time; once compute_dynamics has returned,
\* compute_control does not fail with that error
C11_NotBuiltError ==
    [][/\ (pctl # NoControl /\ ~run.built)
            => (pctl.U = Unset /\ pctl.solve_time = Unset
                /\ pctl.solve_and_build_time = Unset /\ ~run.solved)
       /\ (ComputeControlStep /\ pctl.t_build_start = Unset)
            => (run'.result = "NotBuiltError" /\ run'.pc = "idle"
                /\ run'.solved = run.solved /\ pctl' = pctl)
       /\ (ComputeControlStep /\ run.built)
            => run'.result # "NotBuiltError"]_vars

\* compute_control has failed on a PreviewControl whose compute_dynamics was
\* never called
C11_Witness ==
    /\ pctl # NoControl /\ pctl.t_build_start = Unset
    /\ run.result = "NotBuiltError" /\ ~run.solved /\ pctl.U = Unset

\* nb_steps = 1, A = I, B = I, x_init = 0, no state constraint, and the
\* blend wx/(wx+wu) * x_goal strictly inside the control box
IsSingleStep(c) ==
    /\ c.nb_steps = 1 /\ c.A = eye(c.x_dim) /\ c.B = eye(c.x_dim)
    /\ c.x_init = zeros(c.x_dim) /\ c.E = Unset
    /\ \A i \in 1..c.x_dim :
          /\ c.wx * c.x_goal[i] < MaxU * (c.wx + c.wu)
          /\ c.wx * c.x_goal[i] > (0 - MaxU) * (c.wx + c.wu)

\* C12: on a single-step system with goal g and weights wx, wu > 0,
\* compute_dynamics then compute_control assemble P = (wx+wu) * I and
\* q = -wx * g and store U = wx/(wx+wu) * g
C12_SingleStepBlend ==
    (pctl # NoControl /\ IsSingleStep(pctl) /\ run.result = "ok") =>
        /\ pctl.wx > 0 /\ pctl.wu > 0
        /\ run.P = ScaleM(pctl.wx + pctl.wu, eye(pctl.U_dim))
        /\ run.q = ScaleV(0 - pctl.wx, pctl.x_goal)
        /\ ScaleV(pctl.wx + pctl.wu, pctl.U[1]) = ScaleV(pctl.wx, pctl.x_goal)

\* the blend of the goal (4, -4) under wx = 3, wu = 1 has been stored
C12_Witness ==
    /\ pctl # NoControl /\ IsSingleStep(pctl) /\ run.result = "ok"
    /\ pctl.wx = 3 /\ pctl.wu = 1 /\ pctl.U = Some(<<3, -3>>)

\* A to the power m
RECURSIVE MatPow(_, _)
MatPow(A, m) == IF m = 0 THEN eye(Len(A)) ELSE MatMul(A, MatPow(A, m - 1))

\* columns [u_dim*k, u_dim*(k+1)) of psi
BlockOf(psi, k, u_dim) ==
    [i \in 1..Len(psi) |-> [j \in 1..u_dim |-> psi[i][u_dim * k + j]]]

\* the state reached by applying x_{k+1} = A x_k + B u_k m times from x_init
RECURSIVE Simulate(_, _, _)
Simulate(c, U, m) ==
    IF m = 0 THEN c.x_init
    ELSE AddV(MatVec(c.A, Simulate(c, U, m - 1)),
              MatVec(c.B, Slice(U, c.u_dim * (m - 1), c.u_dim * m)))

\* stacked controls the propagation is tried on
TestControls(m) == [1..m -> {-1, 0, 2}]

\* C13: compute_dynamics starts from phi = I and psi = 0 and stores
\* phi_last = A^N of shape (x_dim, x_dim) and psi_last of shape
\* (x_dim, U_dim) whose control block k is A^(N-1-k) * B, so that
\* phi_last * x_init + psi_last * U is the state after N steps under U
C13_HorizonMatrices ==
    /\ (run.pc = "dyn_loop" /\ run.k = 0)
          => (run.phi = eye(pctl.x_dim)
              /\ run.psi = zeros2(pctl.x_dim, pctl.U_dim))
    /\ (pctl # NoControl /\ pctl.psi_last # Unset) =>
          LET N == pctl.nb_steps
              phi == pctl.phi_last[1]
              psi == pctl.psi_last[1]
          IN /\ N >= 1
             /\ phi = MatPow(pctl.A, N)
             /\ Shape(phi) = <<pctl.x_dim, pctl.x_dim>>
             /\ Shape(psi) = <<pctl.x_dim, pctl.U_dim>>
             /\ \A k \in 0..(N - 1) :
                   BlockOf(psi, k, pctl.u_dim) = MatMul(MatPow(pctl.A, N - 1 - k), pctl.B)
             /\ \A U \in TestControls(pctl.U_dim) :
                   AddV(MatVec(phi, pctl.x_init), MatVec(psi, U)) = Simulate(pctl, U, N)

\* the matrices of a two-step horizon of two-dimensional controls are stored
C13_Witness ==
    /\ pctl # NoControl /\ pctl.psi_last # Unset
    /\ pctl.nb_steps = 2 /\ pctl.u_dim = 2

----------------------------------------------------------------------------
(* Claims about the two locks (SpecLocks) *)

\* tasks_lock is held by a thread exactly while that thread is inside its
\* locked section, and so is preview_lock
LocksMatchSections ==
    /\ \A t \in IKThreads :
          tasks_lock = t <=> pc[t] \in {"add_body", "rm_body", "cv_loop"}
    /\ \A t \in {Updater, Ticker} :
          preview_lock = t <=> bpc[t] \in {"upd_body", "get_body"}
    /\ tasks_lock \in IKThreads \cup {"free"}
    /\ preview_lock \in {Updater, Ticker, "free"}

\* C16: every operation releases the lock it took on every exit path (a
\* raise or an early return inside the locked section included), so both
\* locks are free whenever no operation is inside its locked section, and
\* under fair scheduling no call stays for ever waiting for its lock or
\* inside its body: every call gets its lock and completes
C16_LocksReleased ==
    /\ []LocksMatchSections
    /\ []<>(pc[Planner] \notin {"add_lock", "add_body", "rm_lock", "rm_body"})
    /\ []<>(pc[Ctl] \notin {"cv_lock", "cv_loop", "cv_solve"})
    /\ []<>(bpc[Updater] \notin {"upd_lock", "upd_body"})
    /\ []<>(bpc[Ticker] \notin {"get_lock", "get_body"})

\* an add_task has failed its validation inside the locked section and the
\* control thread, which was waiting, has taken the lock after it
C16_Witness ==
    /\ pc[Planner] = "done" /\ result[Planner] = "MissingWeightError"
    /\ tasks_lock = Ctl /\ pc[Ctl] = "cv_loop"

====
